---- MODULE Spec2Model ----
(***************************************************************************)
(* A model of the markdown editor's script (src/script.js): the autosave   *)
(* pipeline (debounce -> write buffer -> localStorage), the throttled live *)
(* preview, the page load, the editor search and the calculator.           *)
(*                                                                         *)
(* Strings are sequences of one-character strings.  Timers hold the time   *)
(* left until they are due, in milliseconds; time advances in quanta and a *)
(* due timer runs before time advances again.                              *)
(***************************************************************************)
EXTENDS Integers, Sequences, FiniteSets, TLC

VARIABLES
    page,                 \* "loading" | "open" | "closed": the window's life cycle
    editorValue,          \* editor.value
    preview,              \* preview's child elements (block elements)
    localStorage,         \* the origin's localStorage: key -> value
    pendingSaveData,      \* the write buffer: key -> value
    saveTimeout,          \* the flush timer of queueSaveData (time left, or NoTimer)
    debouncedSaveTimeout, \* `timeout` in the closure of debouncedSave
    debouncedSaveArgs,    \* `args` captured by the pending `later` of debouncedSave
    autoSaveStatus,       \* the status badge: "hidden" | "saved"
    statusTimers,         \* the pending hide timers of showAutoSaveStatus
    debouncedSaveServed,  \* the `args` of the most recent invocation by debouncedSave
    inputEvents,          \* number of editor 'input' events dispatched so far
    sinceInput,           \* time since the most recent editor 'input' event (capped)
    setItemThrew,         \* whether localStorage.setItem has thrown in this session
    inThrottle,           \* `inThrottle` in the closure of throttledUpdatePreview
    throttleTimeout,      \* the timer that resets inThrottle
    lastMarkdownContent,  \* the source of the last rendering requested
    cachedPreviewHTML,    \* the elements of the last rendering made
    animationFrames,      \* the requestAnimationFrame callbacks pending: their `markdown`
    invocations,          \* number of invocations of the throttled function so far
    sinceInvoke,          \* time since its most recent invocation (capped)
    searchInput,          \* searchInput.value
    searchMatches,        \* the matches of the last search: [index, text, end], 0-based
    currentMatchIndex,    \* the selected match, -1 for none
    searchCount,          \* searchCount.textContent "i/n", as <<i, n>>
    selection,            \* the editor's selection <<start, end>>, 0-based
    searchDebounceTimeout,\* `timeout` in the closure of debouncedPerformSearch
    currentValue,         \* the calculator's current operand (a string)
    previousValue,        \* the calculator's left operand (a string)
    operator,             \* the pending operator, "" for none
    shouldResetDisplay,   \* whether the next digit starts a new operand
    calcDisplay,          \* calcDisplay.value
    keysPressed,          \* number of calculator buttons clicked so far
    todos,                \* the todo list: [text, completed], newest first
    todoInput,            \* todoInput.value
    todoListItems,        \* the .todo-item elements rendered in #todo-list
    todoCount,            \* the number shown in todoCount ("n 个待完成")
    todoSaveTimeout,      \* `timeout` in the closure of debouncedSaveTodos
    todoEvents,           \* number of events dispatched on the todo panel so far
    notes,                \* the notes: [id, text], newest first
    notesSaveTimeout,     \* `timeout` in the closure of debouncedSaveNotes
    darkMode,             \* whether document.body has the class 'dark-mode'
    savedFileCount,       \* savedFileCount
    settingsEvents,       \* number of clicks on the notes, theme, save and clear buttons
    dataCleared,          \* whether the last user action was a confirmed clear-all-data
    activeTool,           \* the id of the tool panel that has the class 'active'
    activeElementTag,     \* document.activeElement.tagName
    keydownEvents,        \* number of 'keydown' events and tool clicks dispatched so far
    toolbarEvents,        \* number of selections made and toolbar buttons clicked so far
    last                  \* the handler that ran last, with what it observed

saveVars == <<page, editorValue, preview, localStorage, pendingSaveData, saveTimeout,
              debouncedSaveTimeout, debouncedSaveArgs, debouncedSaveServed, autoSaveStatus,
              statusTimers, inputEvents, sinceInput, setItemThrew>>

previewVars == <<inThrottle, throttleTimeout, lastMarkdownContent, cachedPreviewHTML,
                 animationFrames, invocations, sinceInvoke>>

searchVars == <<searchInput, searchMatches, currentMatchIndex, searchCount, selection,
                searchDebounceTimeout>>

calcVars == <<currentValue, previousValue, operator, shouldResetDisplay, calcDisplay,
              keysPressed>>

todoVars == <<todos, todoInput, todoListItems, todoCount, todoSaveTimeout, todoEvents>>

settingsVars == <<notes, notesSaveTimeout, darkMode, savedFileCount, settingsEvents,
                  dataCleared>>

shortcutVars == <<activeTool, activeElementTag, keydownEvents, toolbarEvents>>

panelVars == <<todoVars, settingsVars, shortcutVars>>

toolVars == <<searchVars, calcVars, panelVars>>

vars == <<saveVars, previewVars, toolVars, last>>

-----------------------------------------------------------------------------
(* Bounds *)

\* number of time quanta in one autoSaveInterval
TicksPerInterval == 3
\* number of editor 'input' events in one session
MaxInputs == 3
\* longest stored editor content enumerated for the page load
MaxStoredLen == 3
\* number of time quanta in one throttle interval of the preview
TicksPerLimit == 2
\* longest editor content and longest search text enumerated for the search
MaxContentLen == 3
MaxSearchLen == 2
\* number of calculator buttons clicked in one session
MaxKeys == 5
\* significant decimal digits kept when a number is converted to a string
SignificantDigits == 3
\* the longest todo list, and the events dispatched on the todo panel
MaxTodos == 3
MaxTodoEvents == 4
\* clicks on the notes, theme, save-file and clear-all-data buttons
MaxSettingsEvents == 3
\* 'keydown' events, focus changes and tool-button clicks in one session
MaxKeydowns == 4
\* selections made and quick-edit buttons clicked in one session
MaxToolbarEvents == 2

-----------------------------------------------------------------------------
(* Strings *)

Chars == {"a", " ", "\n"}
Whitespace == {" ", "\n"}

RECURSIVE StringsOver(_, _)
StringsOver(chars, n) ==
    IF n = 0 THEN {<<>>}
    ELSE LET shorter == StringsOver(chars, n - 1)
         IN  shorter \cup {Append(s, c) : s \in {t \in shorter : Len(t) = n - 1}, c \in chars}
StringsUpTo(n) == StringsOver(Chars, n)

\* the documents a user types in the sessions explored
Documents == {<<>>, <<"a">>, <<"a", "\n", "\n", "a">>}

\* String.prototype.trim
RECURSIVE trimStart(_)
trimStart(s) == IF s # <<>> /\ Head(s) \in Whitespace THEN trimStart(Tail(s)) ELSE s
RECURSIVE trimEnd(_)
trimEnd(s) ==
    IF s # <<>> /\ s[Len(s)] \in Whitespace THEN trimEnd(SubSeq(s, 1, Len(s) - 1)) ELSE s
trim(s) == trimEnd(trimStart(s))

\* decimal digits
Digits == <<"0", "1", "2", "3", "4", "5", "6", "7", "8", "9">>
isDigit(c) == \E i \in 1..10 : Digits[i] = c
digitValue(c) == (CHOOSE i \in 1..10 : Digits[i] = c) - 1

RECURSIVE takeDigits(_)
takeDigits(s) ==
    IF s # <<>> /\ isDigit(Head(s)) THEN <<Head(s)>> \o takeDigits(Tail(s)) ELSE <<>>

RECURSIVE digitsToInt(_)
digitsToInt(ds) ==
    IF ds = <<>> THEN 0
    ELSE 10 * digitsToInt(SubSeq(ds, 1, Len(ds) - 1)) + digitValue(ds[Len(ds)])

RECURSIVE intToDigits(_)
intToDigits(k) ==
    IF k < 10 THEN <<Digits[k + 1]>> ELSE Append(intToDigits(k \div 10), Digits[(k % 10) + 1])

-----------------------------------------------------------------------------
(* marked.parse, to the level of block elements: the lines of the source   *)
(* are grouped into paragraphs separated by blank lines; each paragraph is *)
(* one <p> element, kept here as the list of its source lines.             *)

RECURSIVE splitLines(_, _)
splitLines(s, cur) ==
    IF s = <<>> THEN <<cur>>
    ELSE IF Head(s) = "\n" THEN <<cur>> \o splitLines(Tail(s), <<>>)
    ELSE splitLines(Tail(s), Append(cur, Head(s)))

isBlankLine(l) == \A i \in 1..Len(l) : l[i] = " "

RECURSIVE groupParagraphs(_, _)
groupParagraphs(lines, cur) ==
    IF lines = <<>> THEN (IF cur = <<>> THEN <<>> ELSE <<[tag |-> "p", lines |-> cur]>>)
    ELSE IF isBlankLine(Head(lines))
         THEN (IF cur = <<>> THEN <<>> ELSE <<[tag |-> "p", lines |-> cur]>>)
              \o groupParagraphs(Tail(lines), <<>>)
         ELSE groupParagraphs(Tail(lines), Append(cur, trim(Head(lines))))

markedParse(markdown) == groupParagraphs(splitLines(markdown, <<>>), <<>>)

-----------------------------------------------------------------------------
(* Timers *)

autoSaveInterval == 3000
statusHideDelay == 2000
NoTimer == -1

Quantum == autoSaveInterval \div TicksPerInterval
ElapsedCap == 2 * autoSaveInterval + Quantum

Max(a, b) == IF a > b THEN a ELSE b
Min(a, b) == IF a < b THEN a ELSE b

\* a timer after `dt` milliseconds
elapse(timer, dt) == IF timer = NoTimer THEN NoTimer ELSE Max(0, timer - dt)
isDue(timer) == timer = 0

-----------------------------------------------------------------------------
(* localStorage and the write buffer *)

NoValue == <<"null">>          \* what getItem returns for a missing key
hasKey(store, key) == key \in DOMAIN store
getItem(store, key) == IF hasKey(store, key) THEN store[key] ELSE NoValue
setItem(store, key, value) ==
    [k \in DOMAIN store \cup {key} |-> IF k = key THEN value ELSE store[k]]

\* String(Date.now()): the clock's value is not modelled, every stamp reads the same
DateNow == <<"T">>
\* editor.placeholder, the welcome text of the page
placeholder == <<"w">>

\* an object's own entries, in insertion order, as <<key, value>> pairs
entryIndex(obj, key) ==
    IF \E i \in 1..Len(obj) : obj[i][1] = key
    THEN CHOOSE i \in 1..Len(obj) : obj[i][1] = key
    ELSE 0
assign(obj, key, value) ==
    IF entryIndex(obj, key) = 0 THEN Append(obj, <<key, value>>)
    ELSE [obj EXCEPT ![entryIndex(obj, key)] = <<key, value>>]

RECURSIVE setItems(_, _)
setItems(store, entries) ==
    IF entries = <<>> THEN store
    ELSE setItems(setItem(store, Head(entries)[1], Head(entries)[2]), Tail(entries))

\* queueSaveData(key, value): the buffer after the call (the timer is rearmed by the caller)
queueSaveData(buffer, key, value) == assign(buffer, key, value)

\* a variant that queues the timestamp alone
saveTimestampOnly(buffer, content) == queueSaveData(buffer, "editorLastSave", DateNow)

\* saveToLocalStorage(): both keys are queued, the flush timer is rearmed by each call
saveToLocalStorage(buffer, content) ==
    queueSaveData(queueSaveData(buffer, "editorContent", content), "editorLastSave", DateNow)

\* showAutoSaveStatus('saved'): the badge is shown and a hide timer is started
showAutoSaveStatus(timers) == timers \cup {statusHideDelay}

\* flushSaveData(): `failAt` = i > 0 means that the i-th setItem throws (the entries
\* before it are written, the buffer is kept and no status is shown); 0 means none does.
flushStore(store, buffer, failAt) ==
    IF failAt = 0 THEN setItems(store, buffer)
    ELSE setItems(store, SubSeq(buffer, 1, failAt - 1))
\* a variant that empties the buffer whether or not setItem threw
flushBufferAlways(buffer, failAt) == <<>>

flushBuffer(buffer, failAt) == IF failAt = 0 THEN <<>> ELSE buffer

flushSaveData(failAt) ==
    IF pendingSaveData = <<>>
    THEN UNCHANGED <<localStorage, pendingSaveData, autoSaveStatus, statusTimers,
                     setItemThrew>>
    ELSE /\ localStorage' = flushStore(localStorage, pendingSaveData, failAt)
         /\ pendingSaveData' = flushBuffer(pendingSaveData, failAt)
         /\ setItemThrew' = (setItemThrew \/ failAt # 0)
         /\ IF failAt = 0
            THEN /\ autoSaveStatus' = "saved"
                 /\ statusTimers' = showAutoSaveStatus(statusTimers)
            ELSE UNCHANGED <<autoSaveStatus, statusTimers>>

\* the outcomes of the setItem calls of one flush
FlushOutcomes == 0..Len(pendingSaveData)

-----------------------------------------------------------------------------
(* debounce(func, wait) *)

\* a variant that leaves a pending timer running instead of restarting it
debounceCallKeepsTimer(timeout, wait) == IF timeout = NoTimer THEN wait ELSE timeout

\* a call of the debounced function: clearTimeout(timeout); timeout = setTimeout(later, wait)
debounceCall(timeout, wait) == wait
\* the arguments the pending `later` will pass to func
debounceArgs(pendingArgs, args) == args

-----------------------------------------------------------------------------
(* The todo panel *)

TodoTexts == {<<"a">>, <<"b">>}
TodoInputs == {<<>>, <<" ">>, <<"a">>, <<" ", "b", " ">>}
todoSaveWait == 300

\* the value `undefined`
Undefined == <<"undefined">>

\* obj[key] for an object with the properties DOMAIN obj
prop(obj, key) == IF key \in DOMAIN obj THEN obj[key] ELSE Undefined

\* JSON.stringify / JSON.parse of an array of todos
JSONstringify(value) == <<"json", value>>
JSONparse(str) == str[2]

\* let todos = JSON.parse(localStorage.getItem('todos')) || []
\* (getItem gives null for a missing key, JSON.parse(null) is null)
loadTodos(store) ==
    IF hasKey(store, "todos") THEN JSONparse(getItem(store, "todos")) ELSE <<>>

\* renderTodos(): the .todo-item elements; the checkbox and the delete button
\* carry dataset.id = todo.id
renderTodos(list) ==
    [i \in 1..Len(list) |->
        [completed |-> list[i].completed,
         text |-> list[i].text,
         checkbox |-> [dataset |-> [id |-> prop(list[i], "id")], checked |-> list[i].completed],
         deleteBtn |-> [dataset |-> [id |-> prop(list[i], "id")]]]]

\* updateTodoCount(): todos.filter(t => !t.completed).length
RECURSIVE activeTodos(_)
activeTodos(list) ==
    IF list = <<>> THEN 0
    ELSE (IF Head(list).completed THEN 0 ELSE 1) + activeTodos(Tail(list))

\* todos.filter(t => !t.completed)
RECURSIVE filterActive(_)
filterActive(list) ==
    IF list = <<>> THEN <<>>
    ELSE (IF Head(list).completed THEN <<>> ELSE <<Head(list)>>) \o filterActive(Tail(list))

\* the array index a property key denotes, -1 when it denotes none
arrayIndex(key, length) ==
    IF key # Undefined /\ key # <<>> /\ takeDigits(key) = key /\ digitsToInt(key) < length
    THEN digitsToInt(key)
    ELSE -1

\* ToIntegerOrInfinity(value) for undefined and strings of digits
toInteger(value) ==
    IF value = Undefined \/ value = <<>> \/ takeDigits(value) # value THEN 0
    ELSE digitsToInt(value)

\* array.splice(start, 1)
splice1(list, start) ==
    LET from == IF toInteger(start) > Len(list) THEN Len(list) ELSE toInteger(start)
    IN  SubSeq(list, 1, from) \o SubSeq(list, from + 2, Len(list))

\* a variant that appends the new todo at the end
addTodoAtEnd(input, list) ==
    LET text == trim(input)
    IN  IF text # <<>>
        THEN [todos |-> Append(list, [text |-> text, completed |-> FALSE]),
              input |-> <<>>, saved |-> TRUE]
        ELSE [todos |-> list, input |-> input, saved |-> FALSE]

\* addTodo(): the todos and the input box afterwards
addTodo(input, list) ==
    LET text == trim(input)
    IN  IF text # <<>>
        THEN [todos |-> <<[text |-> text, completed |-> FALSE]>> \o list,
              input |-> <<>>, saved |-> TRUE]
        ELSE [todos |-> list, input |-> input, saved |-> FALSE]

\* the 'click' handler of todoList on a .todo-checkbox: threw = TRUE when
\* todos[index] is undefined and reading its `completed` throws a TypeError
checkboxClick(target, list) ==
    LET index == prop(target.dataset, "index")
        at == arrayIndex(index, Len(list))
    IN  IF at = -1
        THEN [todos |-> list, threw |-> TRUE]
        ELSE [todos |-> [list EXCEPT ![at + 1].completed = ~list[at + 1].completed],
              threw |-> FALSE]

\* the 'click' handler of todoList on a .todo-delete
deleteClick(target, list) ==
    LET index == prop(target.dataset, "index")
    IN  [todos |-> splice1(list, index), threw |-> FALSE]

-----------------------------------------------------------------------------
(* Notes, theme and saved-file count *)

notesSaveWait == 300

\* let notes = JSON.parse(localStorage.getItem('notes')) || []
loadNotes(store) ==
    IF hasKey(store, "notes") THEN JSONparse(getItem(store, "notes")) ELSE <<>>

\* addNote(): the new note
newNote == [id |-> DateNow, text |-> <<>>]

\* parseInt(string) || 0, for null and strings of digits
parseIntOr0(str) ==
    IF str = NoValue \/ takeDigits(str) = <<>> THEN 0 ELSE digitsToInt(takeDigits(str))

\* let savedFileCount = parseInt(localStorage.getItem('savedFileCount')) || 0
loadSavedFileCount(store) == parseIntOr0(getItem(store, "savedFileCount"))

\* localStorage.clear()
clear(store) == <<>>

-----------------------------------------------------------------------------
(* insertMarkdown(action).  A character outside ASCII, and the backquote, is   *)
(* written "U+" and its code point.                                           *)

MarkdownActions ==
    {"bold", "italic", "strikethrough", "h1", "h2", "h3", "ul", "ol", "checkbox", "code",
     "codeblock", "quote", "link", "image", "table", "hr"}

\* the default text of an action that wraps text
defaultText(action) ==
    CASE action = "bold" -> <<"U+7C97", "U+4F53", "U+6587", "U+672C">>
      [] action = "italic" -> <<"U+659C", "U+4F53", "U+6587", "U+672C">>
      [] action = "strikethrough" -> <<"U+5220", "U+9664", "U+7EBF", "U+6587", "U+672C">>
      [] action = "h1" -> <<"U+6807", "U+9898", "1">>
      [] action = "h2" -> <<"U+6807", "U+9898", "2">>
      [] action = "h3" -> <<"U+6807", "U+9898", "3">>
      [] action = "ul" -> <<"U+5217", "U+8868", "U+9879">>
      [] action = "ol" -> <<"U+5217", "U+8868", "U+9879">>
      [] action = "checkbox" -> <<"U+5F85", "U+529E", "U+4E8B", "U+9879">>
      [] action = "code" -> <<"U+4EE3", "U+7801">>
      [] action = "codeblock" -> <<"U+4EE3", "U+7801", "U+5185", "U+5BB9">>
      [] action = "quote" -> <<"U+5F15", "U+7528", "U+5185", "U+5BB9">>
      [] action = "link" -> <<"U+94FE", "U+63A5", "U+6587", "U+672C">>
      [] action = "image" -> <<"U+56FE", "U+7247", "U+63CF", "U+8FF0">>

tableText ==
    <<"|", " ", "U+5217", "1", " ", "|", " ", "U+5217", "2", " ", "|", " ", "U+5217",
      "3", " ", "|", "\n", "|", "-", "-", "-", "-", "-", "|", "-", "-", "-", "-", "-",
      "|", "-", "-", "-", "-", "-", "|", "\n", "|", " ", "U+5185", "U+5BB9", " ", "|",
      " ", "U+5185", "U+5BB9", " ", "|", " ", "U+5185", "U+5BB9", " ", "|", "\n", "|",
      " ", "U+5185", "U+5BB9", " ", "|", " ", "U+5185", "U+5BB9", " ", "|", " ",
      "U+5185", "U+5BB9", " ", "|">>

\* selectedText || default
orDefault(selectedText, action) ==
    IF selectedText # <<>> THEN selectedText ELSE defaultText(action)

\* the switch of insertMarkdown: newText and cursorOffset
markup(action, selectedText) ==
    LET text == orDefault(selectedText, action)
        selected == selectedText # <<>>
        atEnd(newText) == [newText |-> newText, cursorOffset |-> Len(newText)]
        wrapped(newText, offset) ==
            [newText |-> newText,
             cursorOffset |-> IF selected THEN Len(newText) ELSE offset]
    IN  CASE action = "bold" -> wrapped(<<"*", "*">> \o text \o <<"*", "*">>, 2)
          [] action = "italic" -> wrapped(<<"*">> \o text \o <<"*">>, 1)
          [] action = "strikethrough" -> wrapped(<<"~", "~">> \o text \o <<"~", "~">>, 2)
          [] action = "h1" -> atEnd(<<"#", " ">> \o text)
          [] action = "h2" -> atEnd(<<"#", "#", " ">> \o text)
          [] action = "h3" -> atEnd(<<"#", "#", "#", " ">> \o text)
          [] action = "ul" -> atEnd(<<"-", " ">> \o text)
          [] action = "ol" -> atEnd(<<"1", ".", " ">> \o text)
          [] action = "checkbox" -> atEnd(<<"-", " ", "[", " ", "]", " ">> \o text)
          [] action = "code" -> wrapped(<<"U+0060">> \o text \o <<"U+0060">>, 1)
          [] action = "codeblock" ->
                LET newText == <<"U+0060", "U+0060", "U+0060">>
                               \o (IF selected THEN <<>>
                                   ELSE <<"j", "a", "v", "a", "s", "c", "r", "i", "p", "t">>)
                               \o <<"\n">> \o text \o <<"\n", "U+0060", "U+0060", "U+0060">>
                IN  [newText |-> newText, cursorOffset |-> Len(newText) - 4]
          [] action = "quote" -> atEnd(<<">", " ">> \o text)
          [] action = "link" ->
                LET newText == <<"[">> \o text \o <<"]", "(", "u", "r", "l", ")">>
                IN  [newText |-> newText,
                     cursorOffset |-> IF selected THEN Len(newText) - 4 ELSE 1]
          [] action = "image" ->
                LET newText == <<"!", "[">> \o text
                               \o <<"]", "(", "i", "m", "a", "g", "e", "_", "u", "r", "l", ")">>
                IN  [newText |-> newText,
                     cursorOffset |-> IF selected THEN Len(newText) - 9 ELSE 2]
          [] action = "table" -> atEnd(tableText)
          [] action = "hr" -> atEnd(<<"\n", "-", "-", "-", "\n">>)
          [] OTHER -> [newText |-> <<>>, cursorOffset |-> 0]

\* insertMarkdown(action) on the editor value with the selection [start, end):
\* the value and the collapsed cursor afterwards
insertMarkdown(action, value, start, end) ==
    LET selectedText == SubSeq(value, start + 1, end)
        beforeText == SubSeq(value, 1, start)
        afterText == SubSeq(value, end + 1, Len(value))
        m == markup(action, selectedText)
    IN  [value |-> beforeText \o m.newText \o afterText,
         cursor |-> start + m.cursorOffset,
         newText |-> m.newText]

-----------------------------------------------------------------------------
(* The page load *)

StoredStates(contents) ==
    {<<>>} \cup {[k \in {"editorContent", "editorLastSave"} |->
                    IF k = "editorContent" THEN c ELSE DateNow] : c \in contents}
VisitedStates == {<<>>, [k \in {"hasVisited"} |-> <<"t", "r", "u", "e">>]}

merge(f, g) == [k \in DOMAIN f \cup DOMAIN g |-> IF k \in DOMAIN f THEN f[k] ELSE g[k]]

\* the state once the script has been evaluated, for the stored states `stores`
InitFrom(stores) ==
    /\ page = "loading"
    /\ editorValue = <<>>
    /\ preview = <<>>
    /\ localStorage \in stores
    /\ pendingSaveData = <<>>
    /\ saveTimeout = NoTimer
    /\ debouncedSaveTimeout = NoTimer
    /\ debouncedSaveArgs = 0
    /\ debouncedSaveServed = 0
    /\ autoSaveStatus = "hidden"
    /\ statusTimers = {}
    /\ inputEvents = 0
    /\ sinceInput = ElapsedCap
    /\ setItemThrew = FALSE
    /\ inThrottle = FALSE
    /\ throttleTimeout = NoTimer
    /\ lastMarkdownContent = <<>>
    /\ cachedPreviewHTML = <<>>
    /\ animationFrames = <<>>
    /\ invocations = 0
    /\ sinceInvoke = 0
    /\ searchInput = <<>>
    /\ searchMatches = <<>>
    /\ currentMatchIndex = -1
    /\ searchCount = <<0, 0>>
    /\ selection = <<0, 0>>
    /\ searchDebounceTimeout = NoTimer
    /\ currentValue = <<"0">>
    /\ previousValue = <<>>
    /\ operator = ""
    /\ shouldResetDisplay = FALSE
    /\ calcDisplay = <<"0">>
    /\ keysPressed = 0
    /\ todos = loadTodos(localStorage)
    /\ todoInput = <<>>
    /\ todoListItems = renderTodos(todos)
    /\ todoCount = activeTodos(todos)
    /\ todoSaveTimeout = NoTimer
    /\ todoEvents = 0
    /\ notes = loadNotes(localStorage)
    /\ notesSaveTimeout = NoTimer
    /\ darkMode = (getItem(localStorage, "theme") = <<"d", "a", "r", "k">>)
    /\ savedFileCount = loadSavedFileCount(localStorage)
    /\ settingsEvents = 0
    /\ dataCleared = FALSE
    /\ activeTool = "calculator"
    /\ activeElementTag = "BODY"
    /\ keydownEvents = 0
    /\ toolbarEvents = 0
    /\ last = [op |-> "none"]

InitWith(contents) ==
    InitFrom({merge(s, v) : s \in StoredStates(contents), v \in VisitedStates})

Init == InitWith(Documents)

\* the page load alone, over every stored content up to MaxStoredLen
InitLoad == InitWith(StringsUpTo(MaxStoredLen))

\* a variant that tests the stored content without trimming it
loadCaseUntrimmed(store) ==
    LET savedContent == getItem(store, "editorContent")
        hasVisited == getItem(store, "hasVisited")
    IN  IF savedContent # NoValue /\ savedContent # <<>>
        THEN 1
        ELSE IF hasVisited = NoValue \/ hasVisited = <<>> THEN 2 ELSE 3

\* loadFromLocalStorage(): the branch taken
loadCase(store) ==
    LET savedContent == getItem(store, "editorContent")
        hasVisited == getItem(store, "hasVisited")
    IN  IF savedContent # NoValue /\ savedContent # <<>> /\ trim(savedContent) # <<>>
        THEN 1
        ELSE IF hasVisited = NoValue \/ hasVisited = <<>> THEN 2 ELSE 3

\* window 'load': loadFromLocalStorage()
WindowLoad ==
    /\ page = "loading"
    /\ page' = "open"
    /\ LET c == loadCase(localStorage) IN
       /\ editorValue' = CASE c = 1 -> getItem(localStorage, "editorContent")
                           [] c = 2 -> placeholder
                           [] OTHER -> <<>>
       /\ preview' = CASE c = 1 -> markedParse(getItem(localStorage, "editorContent"))
                       [] c = 2 -> markedParse(placeholder)
                       [] OTHER -> <<>>
       /\ localStorage' = IF c = 2
                          THEN setItem(localStorage, "hasVisited", <<"t", "r", "u", "e">>)
                          ELSE localStorage
       /\ autoSaveStatus' = IF c = 1 THEN "saved" ELSE autoSaveStatus
       /\ statusTimers' = IF c = 1 THEN showAutoSaveStatus(statusTimers) ELSE statusTimers
       /\ last' = [op |-> "loadFromLocalStorage", branch |-> c, store |-> localStorage]
    /\ UNCHANGED <<pendingSaveData, saveTimeout, debouncedSaveTimeout, debouncedSaveArgs,
                   debouncedSaveServed, inputEvents, sinceInput, setItemThrew,
                   previewVars, toolVars>>

-----------------------------------------------------------------------------
(* The autosave pipeline *)

\* editor 'input' -> debouncedSave(event); the event is named by its number
InputDebouncedSave ==
    /\ page = "open"
    /\ inputEvents < MaxInputs
    /\ \E v \in Documents : editorValue' = v
    /\ inputEvents' = inputEvents + 1
    /\ sinceInput' = 0
    /\ debouncedSaveTimeout' = debounceCall(debouncedSaveTimeout, autoSaveInterval)
    /\ debouncedSaveArgs' = debounceArgs(debouncedSaveArgs, inputEvents + 1)
    /\ last' = [op |-> "input", event |-> inputEvents + 1]
    /\ UNCHANGED <<page, preview, debouncedSaveServed, localStorage, pendingSaveData,
                   saveTimeout, autoSaveStatus, statusTimers, setItemThrew, previewVars,
                   toolVars>>

\* the timer of debouncedSave fires: later() -> func(...args) -> saveToLocalStorage()
DebouncedSaveLater ==
    /\ page = "open"
    /\ isDue(debouncedSaveTimeout)
    /\ debouncedSaveTimeout' = NoTimer
    /\ pendingSaveData' = saveToLocalStorage(pendingSaveData, editorValue)
    /\ saveTimeout' = autoSaveInterval
    /\ debouncedSaveServed' = debouncedSaveArgs
    /\ last' = [op |-> "debouncedSave", args |-> debouncedSaveArgs, event |-> inputEvents,
                elapsed |-> sinceInput, served |-> debouncedSaveServed]
    /\ UNCHANGED <<page, editorValue, preview, localStorage, debouncedSaveArgs,
                   autoSaveStatus, statusTimers, inputEvents, sinceInput, setItemThrew,
                   previewVars, toolVars>>

\* saveTimeout fires: flushSaveData()
SaveTimeoutFires ==
    /\ page = "open"
    /\ isDue(saveTimeout)
    /\ saveTimeout' = NoTimer
    /\ \E failAt \in FlushOutcomes :
          /\ flushSaveData(failAt)
          /\ last' = [op |-> "flushSaveData", elapsed |-> sinceInput, failAt |-> failAt,
                      buffer |-> pendingSaveData, store |-> localStorage,
                      status |-> autoSaveStatus, timers |-> statusTimers,
                      saveTimeout |-> saveTimeout, debounced |-> debouncedSaveTimeout]
    /\ UNCHANGED <<page, editorValue, preview, debouncedSaveTimeout, debouncedSaveArgs,
                   debouncedSaveServed, inputEvents, sinceInput, previewVars, toolVars>>

\* window 'beforeunload': flushSaveData(); the page and its timers are gone afterwards
BeforeUnload ==
    /\ page = "open"
    /\ page' = "closed"
    /\ \E failAt \in FlushOutcomes :
          /\ flushSaveData(failAt)
          /\ last' = [op |-> "beforeunload", threw |-> setItemThrew', failAt |-> failAt,
                      buffer |-> pendingSaveData, store |-> localStorage,
                      status |-> autoSaveStatus, timers |-> statusTimers,
                      saveTimeout |-> saveTimeout, debounced |-> debouncedSaveTimeout]
    /\ UNCHANGED <<editorValue, preview, saveTimeout, debouncedSaveTimeout,
                   debouncedSaveArgs, debouncedSaveServed, inputEvents, sinceInput,
                   previewVars, toolVars>>

\* a hide timer of showAutoSaveStatus fires
StatusHide ==
    /\ page = "open"
    /\ \E t \in statusTimers : isDue(t)
    /\ statusTimers' = statusTimers \ {0}
    /\ autoSaveStatus' = "hidden"
    /\ last' = [op |-> "statusHide"]
    /\ UNCHANGED <<page, editorValue, preview, localStorage, pendingSaveData, saveTimeout,
                   debouncedSaveTimeout, debouncedSaveArgs, debouncedSaveServed,
                   inputEvents, sinceInput, setItemThrew, previewVars, toolVars>>

saveTimers == {saveTimeout, debouncedSaveTimeout} \cup statusTimers

\* time advances by one quantum; a due timer runs first
Tick ==
    /\ page = "open"
    /\ \E t \in saveTimers : t # NoTimer
    /\ \A t \in saveTimers : ~isDue(t)
    /\ saveTimeout' = elapse(saveTimeout, Quantum)
    /\ debouncedSaveTimeout' = elapse(debouncedSaveTimeout, Quantum)
    /\ statusTimers' = {elapse(t, Quantum) : t \in statusTimers}
    /\ sinceInput' = Min(ElapsedCap, sinceInput + Quantum)
    /\ last' = [op |-> "tick"]
    /\ UNCHANGED <<page, editorValue, preview, localStorage, pendingSaveData,
                   debouncedSaveArgs, debouncedSaveServed, autoSaveStatus, inputEvents,
                   setItemThrew, previewVars, toolVars>>

-----------------------------------------------------------------------------
(* The live preview: throttle(func, 200) on editor 'input' *)

previewThrottleLimit == 200
PreviewQuantum == previewThrottleLimit \div TicksPerLimit
InvokeCap == previewThrottleLimit + PreviewQuantum

\* a variant that ignores the inThrottle flag
throttleInvokesAlways(throttled) == TRUE

\* throttle(func, limit): whether a call of the throttled function invokes func
throttleInvokes(throttled) == ~throttled

\* the throttled function: whether it requests a rendering of `markdown`
\* (markdown === lastMarkdownContent && cachedPreviewHTML) returns early
requestsRender(markdown) == ~(markdown = lastMarkdownContent /\ cachedPreviewHTML # <<>>)

\* the animation-frame callback: the children of the preview afterwards.  The
\* preview is emptied and tempDiv.firstChild alone is appended; with no child,
\* appendChild(null) throws and the catch leaves the preview empty.
renderedChildren(html) == IF html = <<>> THEN <<>> ELSE <<Head(html)>>

\* editor 'input' -> throttledUpdatePreview(event)
InputThrottledUpdatePreview ==
    /\ page = "open"
    /\ inputEvents < MaxInputs
    /\ \E v \in Documents : editorValue' = v
    /\ inputEvents' = inputEvents + 1
    /\ IF throttleInvokes(inThrottle)
       THEN /\ invocations' = invocations + 1
            /\ sinceInvoke' = 0
            /\ inThrottle' = TRUE
            /\ throttleTimeout' = previewThrottleLimit
            /\ IF requestsRender(editorValue')
               THEN /\ lastMarkdownContent' = editorValue'
                    /\ animationFrames' = Append(animationFrames, editorValue')
               ELSE UNCHANGED <<lastMarkdownContent, animationFrames>>
       ELSE UNCHANGED <<invocations, sinceInvoke, inThrottle, throttleTimeout,
                        lastMarkdownContent, animationFrames>>
    /\ last' = [op |-> "throttledUpdatePreview", running |-> throttleTimeout # NoTimer,
                before |-> invocations, after |-> invocations', gap |-> sinceInvoke]
    /\ UNCHANGED <<page, preview, localStorage, pendingSaveData, saveTimeout,
                   debouncedSaveTimeout, debouncedSaveArgs, debouncedSaveServed,
                   autoSaveStatus, statusTimers, sinceInput, setItemThrew,
                   cachedPreviewHTML, toolVars>>

\* the throttle's timer fires: inThrottle = false
ThrottleTimeoutFires ==
    /\ page = "open"
    /\ isDue(throttleTimeout)
    /\ throttleTimeout' = NoTimer
    /\ inThrottle' = FALSE
    /\ UNCHANGED <<saveVars, lastMarkdownContent, cachedPreviewHTML, animationFrames,
                   invocations, sinceInvoke, toolVars>>
    /\ last' = [op |-> "throttleTimeout", before |-> invocations, after |-> invocations']

\* the browser runs the oldest animation-frame callback
AnimationFrame ==
    /\ page = "open"
    /\ animationFrames # <<>>
    /\ animationFrames' = Tail(animationFrames)
    /\ cachedPreviewHTML' = markedParse(Head(animationFrames))
    /\ preview' = renderedChildren(cachedPreviewHTML')
    /\ UNCHANGED <<page, editorValue, localStorage, pendingSaveData, saveTimeout,
                   debouncedSaveTimeout, debouncedSaveArgs, debouncedSaveServed,
                   autoSaveStatus, statusTimers, inputEvents, sinceInput, setItemThrew,
                   inThrottle, throttleTimeout, lastMarkdownContent, invocations,
                   sinceInvoke, toolVars>>
    /\ last' = [op |-> "animationFrame", before |-> invocations, after |-> invocations']

\* time advances by one quantum; due timers and pending frames run first
PreviewTick ==
    /\ page = "open"
    /\ throttleTimeout # NoTimer
    /\ ~isDue(throttleTimeout)
    /\ animationFrames = <<>>
    /\ throttleTimeout' = elapse(throttleTimeout, PreviewQuantum)
    /\ sinceInvoke' = Min(InvokeCap, sinceInvoke + PreviewQuantum)
    /\ UNCHANGED <<saveVars, inThrottle, lastMarkdownContent, cachedPreviewHTML,
                   animationFrames, invocations, toolVars>>
    /\ last' = [op |-> "tick", before |-> invocations, after |-> invocations']

NextPreview ==
    \/ WindowLoad
    \/ InputThrottledUpdatePreview
    \/ ThrottleTimeoutFires
    \/ AnimationFrame
    \/ PreviewTick

SpecPreview == Init /\ [][NextPreview]_vars

Next ==
    \/ WindowLoad
    \/ InputDebouncedSave
    \/ DebouncedSaveLater
    \/ SaveTimeoutFires
    \/ BeforeUnload
    \/ StatusHide
    \/ Tick

Spec == Init /\ [][Next]_vars

-----------------------------------------------------------------------------
(* The editor search *)

\* the characters of the editor contents searched, and the search texts typed:
\* a text over {"a", "."}, alone or after a blank
ContentChars == {"a", "A", "."}
SearchTexts ==
    {pad \o core : pad \in {<<>>, <<" ">>}, core \in StringsOver({"a", "."}, MaxSearchLen)}
searchDebounceWait == 300

\* the characters of /[.*+?^${}()|[\]\\]/
RegexMeta == {".", "*", "+", "?", "^", "$", "{", "}", "(", ")", "|", "[", "]", "\\"}

\* searchText.replace(/[.*+?^${}()|[\]\\]/g, '\\$&')
RECURSIVE escapeRegExp(_)
escapeRegExp(text) ==
    IF text = <<>> THEN <<>>
    ELSE (IF Head(text) \in RegexMeta THEN <<"\\", Head(text)>> ELSE <<Head(text)>>)
         \o escapeRegExp(Tail(text))

\* new RegExp(source, 'gi'), for sources made of characters, escaped characters
\* and the wildcard '.': the atoms the expression matches in sequence
RECURSIVE compileRegExp(_)
compileRegExp(source) ==
    IF source = <<>> THEN <<>>
    ELSE IF Head(source) = "\\" /\ Len(source) >= 2
         THEN <<[any |-> FALSE, ch |-> source[2]]>> \o compileRegExp(Tail(Tail(source)))
    ELSE IF Head(source) = "."
         THEN <<[any |-> TRUE, ch |-> "."]>> \o compileRegExp(Tail(source))
    ELSE <<[any |-> FALSE, ch |-> Head(source)]>> \o compileRegExp(Tail(source))

\* the canonical form the 'i' flag compares characters in
toUpperCase(c) == IF c = "a" THEN "A" ELSE c

\* a variant without the 'i' flag
atomMatchesCaseSensitive(atom, c) ==
    IF atom.any THEN c # "\n" ELSE atom.ch = c

\* whether an atom of the expression matches the character c under the 'i' flag
atomMatches(atom, c) ==
    IF atom.any THEN c # "\n" ELSE toUpperCase(atom.ch) = toUpperCase(c)

\* whether the expression matches the content at the 0-based position pos
matchesAt(atoms, content, pos) ==
    /\ pos + Len(atoms) <= Len(content)
    /\ \A i \in 1..Len(atoms) : atomMatches(atoms[i], content[pos + i])

\* regex.exec(content) from lastIndex: the position of the match, -1 for null
regexExec(atoms, content, lastIndex) ==
    LET found == {p \in lastIndex..Len(content) : matchesAt(atoms, content, p)}
    IN  IF found = {} THEN -1 ELSE CHOOSE p \in found : \A q \in found : p <= q

\* while ((match = regex.exec(content)) !== null) searchMatches.push(...)
RECURSIVE execLoop(_, _, _)
execLoop(atoms, content, lastIndex) ==
    LET p == regexExec(atoms, content, lastIndex)
    IN  IF p = -1 THEN <<>>
        ELSE <<[index |-> p,
                text |-> SubSeq(content, p + 1, p + Len(atoms)),
                end |-> p + Len(atoms)]>>
             \o execLoop(atoms, content, p + Len(atoms))

\* the search state the functions below read and write
searchState ==
    [matches |-> searchMatches, index |-> currentMatchIndex, count |-> searchCount,
     selection |-> selection]

\* highlightCurrentMatch()
highlightCurrentMatch(st) ==
    IF Len(st.matches) = 0 \/ st.index < 0 THEN st
    ELSE [st EXCEPT !.selection = <<st.matches[st.index + 1].index,
                                    st.matches[st.index + 1].end>>]

\* clearSearchHighlights()
clearSearchHighlights(st) ==
    [st EXCEPT !.matches = <<>>, !.index = -1, !.count = <<0, 0>>]

\* performSearch()
performSearch(inputValue, content, st) ==
    LET searchText == trim(inputValue) IN
    IF searchText = <<>>
    THEN clearSearchHighlights([st EXCEPT !.count = <<0, 0>>])
    ELSE LET found == execLoop(compileRegExp(escapeRegExp(searchText)), content, 0)
             st1 == [st EXCEPT !.matches = found, !.index = -1]
             st2 == IF Len(found) > 0
                    THEN highlightCurrentMatch([st1 EXCEPT !.index = 0])
                    ELSE st1
         IN  [st2 EXCEPT !.count = <<st2.index + 1, Len(st2.matches)>>]

\* a variant that stops at the first and the last match instead of wrapping
navigateSearchClamped(direction, st) ==
    IF Len(st.matches) = 0 THEN st
    ELSE LET moved == st.index + direction
             clamped == IF moved < 0 THEN 0
                        ELSE IF moved >= Len(st.matches) THEN Len(st.matches) - 1
                        ELSE moved
             st1 == highlightCurrentMatch([st EXCEPT !.index = clamped])
         IN  [st1 EXCEPT !.count = <<clamped + 1, Len(st.matches)>>]

\* navigateSearch(direction)
navigateSearch(direction, st) ==
    IF Len(st.matches) = 0 THEN st
    ELSE LET moved == st.index + direction
             wrapped == IF moved < 0 THEN Len(st.matches) - 1
                        ELSE IF moved >= Len(st.matches) THEN 0
                        ELSE moved
             st1 == highlightCurrentMatch([st EXCEPT !.index = wrapped])
         IN  [st1 EXCEPT !.count = <<wrapped + 1, Len(st.matches)>>]

setSearchState(st) ==
    /\ searchMatches' = st.matches
    /\ currentMatchIndex' = st.index
    /\ searchCount' = st.count
    /\ selection' = st.selection

\* searchInput 'input' -> debouncedPerformSearch(event)
SearchInputTyped ==
    /\ page = "open"
    /\ \E text \in SearchTexts : searchInput' = text
    /\ searchDebounceTimeout' = debounceCall(searchDebounceTimeout, searchDebounceWait)
    /\ last' = [op |-> "searchInput"]
    /\ UNCHANGED <<saveVars, previewVars, calcVars, panelVars, searchMatches, currentMatchIndex,
                   searchCount, selection>>

\* the timer of debouncedPerformSearch fires (at some time): performSearch()
SearchDebounceLater ==
    /\ page = "open"
    /\ searchDebounceTimeout # NoTimer
    /\ searchDebounceTimeout' = NoTimer
    /\ setSearchState(performSearch(searchInput, editorValue, searchState))
    /\ last' = [op |-> "performSearch", text |-> searchInput, content |-> editorValue]
    /\ UNCHANGED <<saveVars, previewVars, calcVars, panelVars, searchInput>>

\* searchInput 'keydown' Enter: performSearch(); navigateSearch(1)
SearchKeydownEnter ==
    /\ page = "open"
    /\ LET searched == performSearch(searchInput, editorValue, searchState) IN
       /\ setSearchState(navigateSearch(1, searched))
       /\ last' = [op |-> "navigateSearch", direction |-> 1, before |-> searched]
    /\ UNCHANGED <<saveVars, previewVars, calcVars, panelVars, searchInput, searchDebounceTimeout>>

\* searchNext / searchPrev 'click': navigateSearch(1) / navigateSearch(-1)
SearchNavigateClick ==
    /\ page = "open"
    /\ \E direction \in {-1, 1} :
          /\ setSearchState(navigateSearch(direction, searchState))
          /\ last' = [op |-> "navigateSearch", direction |-> direction,
                      before |-> searchState]
    /\ UNCHANGED <<saveVars, previewVars, calcVars, panelVars, searchInput, searchDebounceTimeout>>

\* a returning visitor's page over every stored content up to MaxContentLen
InitSearch ==
    /\ InitWith(StringsOver(ContentChars, MaxContentLen))
    /\ hasKey(localStorage, "hasVisited")

NextSearch ==
    \/ WindowLoad
    \/ SearchInputTyped
    \/ SearchDebounceLater
    \/ SearchKeydownEnter
    \/ SearchNavigateClick

SpecSearch == InitSearch /\ [][NextSearch]_vars

-----------------------------------------------------------------------------
(* Numbers: a JavaScript number is modelled as a decimal floating-point      *)
(* number n / 10^d with SignificantDigits significant digits (where a double *)
(* keeps about 17), NaN or an infinity.  Every result is rounded to that     *)
(* precision; numbers that fit are exact.                                    *)

Abs(x) == IF x < 0 THEN -x ELSE x
Sign(x) == IF x < 0 THEN -1 ELSE 1

RECURSIVE Pow10(_)
Pow10(k) == IF k = 0 THEN 1 ELSE 10 * Pow10(k - 1)

NaN == [k |-> "nan", n |-> 0, d |-> 0]
Infinity(sign) == [k |-> "inf", n |-> sign, d |-> 0]

\* n / 10^d with no trailing zero in n (d is negative for multiples of ten)
RECURSIVE Decimal(_, _)
Decimal(n, d) ==
    IF n = 0 THEN [k |-> "fin", n |-> 0, d |-> 0]
    ELSE IF n % 10 = 0 THEN Decimal(n \div 10, d - 1)
    ELSE [k |-> "fin", n |-> n, d |-> d]

\* a / 10^d (a >= 0) rounded to SignificantDigits significant digits
RECURSIVE roundMagnitude(_, _)
roundMagnitude(a, d) ==
    IF a < Pow10(SignificantDigits) THEN <<a, d>>
    ELSE roundMagnitude((a \div 10) + (IF a % 10 >= 5 THEN 1 ELSE 0), d - 1)

Rounded(n, d) ==
    LET r == roundMagnitude(Abs(n), d) IN Decimal(Sign(n) * r[1], r[2])

isZero(x) == x.k = "fin" /\ x.n = 0

numNegate(x) == IF x.k = "nan" THEN x ELSE [x EXCEPT !.n = -x.n]

Max2(a, b) == IF a > b THEN a ELSE b

\* a + b
numAdd(a, b) ==
    IF a.k = "nan" \/ b.k = "nan" THEN NaN
    ELSE IF a.k = "inf" /\ b.k = "inf" THEN (IF a.n = b.n THEN a ELSE NaN)
    ELSE IF a.k = "inf" THEN a
    ELSE IF b.k = "inf" THEN b
    ELSE LET d == Max2(a.d, b.d)
         IN  Rounded(a.n * Pow10(d - a.d) + b.n * Pow10(d - b.d), d)

\* a * b
numMultiply(a, b) ==
    IF a.k = "nan" \/ b.k = "nan" THEN NaN
    ELSE IF a.k = "inf" \/ b.k = "inf"
         THEN (IF a.n = 0 \/ b.n = 0 THEN NaN ELSE Infinity(Sign(a.n) * Sign(b.n)))
    ELSE Rounded(a.n * b.n, a.d + b.d)

\* the shift at which the quotient of a by b has more than SignificantDigits digits
RECURSIVE quotientShift(_, _, _)
quotientShift(a, b, shift) ==
    IF (a * Pow10(shift)) \div b >= Pow10(SignificantDigits) THEN shift
    ELSE quotientShift(a, b, shift + 1)

\* a / b
numDivide(a, b) ==
    IF a.k = "nan" \/ b.k = "nan" THEN NaN
    ELSE IF a.k = "inf" THEN (IF b.k = "inf" THEN NaN ELSE Infinity(a.n * Sign(b.n)))
    ELSE IF b.k = "inf" THEN Decimal(0, 0)
    ELSE IF b.n = 0 THEN (IF a.n = 0 THEN NaN ELSE Infinity(Sign(a.n)))
    ELSE IF a.n = 0 THEN Decimal(0, 0)
    ELSE LET shift == quotientShift(Abs(a.n), Abs(b.n), 0)
             quotient == (Abs(a.n) * Pow10(shift)) \div Abs(b.n)
         IN  Rounded(Sign(a.n) * Sign(b.n) * quotient, shift + a.d - b.d)

\* parseFloat(string): the longest numeric prefix, NaN when there is none
parseFloat(str) ==
    LET negative == str # <<>> /\ Head(str) = "-"
        body == IF negative THEN Tail(str) ELSE str
        whole == takeDigits(body)
        rest == SubSeq(body, Len(whole) + 1, Len(body))
        frac == IF rest # <<>> /\ Head(rest) = "." THEN takeDigits(Tail(rest)) ELSE <<>>
        sign == IF negative THEN -1 ELSE 1
    IN  IF body # <<>> /\ Head(body) = "I" THEN Infinity(sign)
        ELSE IF whole = <<>> /\ frac = <<>> THEN NaN
        ELSE Decimal(sign * digitsToInt(whole \o frac), Len(frac))

RECURSIVE padLeft(_, _)
padLeft(ds, width) == IF Len(ds) >= width THEN ds ELSE padLeft(<<"0">> \o ds, width)

\* String(number)
numberToString(x) ==
    IF x.k = "nan" THEN <<"N", "a", "N">>
    ELSE IF x.k = "inf"
         THEN (IF x.n < 0 THEN <<"-">> ELSE <<>>) \o <<"I", "n", "f", "i", "n", "i", "t", "y">>
    ELSE (IF x.n < 0 THEN <<"-">> ELSE <<>>)
         \o (IF x.d <= 0 THEN intToDigits(Abs(x.n)) \o [i \in 1..(-x.d) |-> "0"]
             ELSE intToDigits(Abs(x.n) \div Pow10(x.d))
                  \o <<".">> \o padLeft(intToDigits(Abs(x.n) % Pow10(x.d)), x.d))

-----------------------------------------------------------------------------
(* The calculator *)

CalcDigits == {"0", "3"}
CalcActions == {"clear", "backspace", "percent", "decimal", "add", "subtract",
                "multiply", "divide", "equals"}
\* the action buttons clicked in the sessions explored ('percent' is left out: it
\* leads to numbers that are written with an exponent)
ClickedActions == CalcActions \ {"percent"}
ErrorText == <<"E", "r", "r", "o", "r">>

calcState ==
    [currentValue |-> currentValue, previousValue |-> previousValue,
     operator |-> operator, shouldResetDisplay |-> shouldResetDisplay]

\* a variant that divides without testing the divisor
calculateUnchecked(st) ==
    LET prev == parseFloat(st.previousValue)
        current == parseFloat(st.currentValue)
        result ==
            CASE st.operator = "add" -> numAdd(prev, current)
              [] st.operator = "subtract" -> numAdd(prev, numNegate(current))
              [] st.operator = "multiply" -> numMultiply(prev, current)
              [] st.operator = "divide" -> numDivide(prev, current)
    IN  [st EXCEPT !.currentValue = numberToString(result), !.shouldResetDisplay = TRUE]

\* calculate()
calculate(st) ==
    LET prev == parseFloat(st.previousValue)
        current == parseFloat(st.currentValue)
        result ==
            CASE st.operator = "add" -> numberToString(numAdd(prev, current))
              [] st.operator = "subtract" -> numberToString(numAdd(prev, numNegate(current)))
              [] st.operator = "multiply" -> numberToString(numMultiply(prev, current))
              [] st.operator = "divide" ->
                    IF ~isZero(current) THEN numberToString(numDivide(prev, current))
                    ELSE ErrorText
    IN  [st EXCEPT !.currentValue = result, !.shouldResetDisplay = TRUE]

\* handleNumber(num)
handleNumber(num, st) ==
    IF st.shouldResetDisplay
    THEN [st EXCEPT !.currentValue = <<num>>, !.shouldResetDisplay = FALSE]
    ELSE [st EXCEPT !.currentValue = IF st.currentValue = <<"0">> THEN <<num>>
                                     ELSE Append(st.currentValue, num)]

pendingOperation(st) == st.previousValue # <<>> /\ st.operator # ""

\* handleAction(action)
handleAction(action, st) ==
    CASE action = "clear" ->
            [st EXCEPT !.currentValue = <<"0">>, !.previousValue = <<>>, !.operator = ""]
      [] action = "backspace" ->
            [st EXCEPT !.currentValue =
                IF Len(st.currentValue) > 1
                THEN SubSeq(st.currentValue, 1, Len(st.currentValue) - 1)
                ELSE <<"0">>]
      [] action = "percent" ->
            [st EXCEPT !.currentValue =
                numberToString(numDivide(parseFloat(st.currentValue), Decimal(100, 0)))]
      [] action = "decimal" ->
            IF \E i \in 1..Len(st.currentValue) : st.currentValue[i] = "."
            THEN st
            ELSE [st EXCEPT !.currentValue = Append(st.currentValue, ".")]
      [] action \in {"add", "subtract", "multiply", "divide"} ->
            LET st1 == IF pendingOperation(st) THEN calculate(st) ELSE st
            IN  [st1 EXCEPT !.previousValue = st1.currentValue, !.operator = action,
                            !.shouldResetDisplay = TRUE]
      [] action = "equals" ->
            IF pendingOperation(st)
            THEN [calculate(st) EXCEPT !.previousValue = <<>>, !.operator = ""]
            ELSE st

\* the state is stored and updateDisplay() shows currentValue
setCalcState(st) ==
    /\ currentValue' = st.currentValue
    /\ previousValue' = st.previousValue
    /\ operator' = st.operator
    /\ shouldResetDisplay' = st.shouldResetDisplay
    /\ calcDisplay' = st.currentValue

\* click on a digit button: handleNumber(value)
CalcDigitClick ==
    /\ page = "open"
    /\ keysPressed < MaxKeys
    /\ keysPressed' = keysPressed + 1
    /\ \E num \in CalcDigits : setCalcState(handleNumber(num, calcState))
    /\ last' = [op |-> "handleNumber"]
    /\ UNCHANGED <<saveVars, previewVars, searchVars, panelVars>>

\* click on an action button: handleAction(action)
CalcActionClick ==
    /\ page = "open"
    /\ keysPressed < MaxKeys
    /\ keysPressed' = keysPressed + 1
    /\ \E action \in ClickedActions :
          /\ setCalcState(handleAction(action, calcState))
          /\ last' = IF action \in {"add", "subtract", "multiply", "divide", "equals"}
                        /\ pendingOperation(calcState)
                     THEN [op |-> "calculate", operator |-> operator,
                           prev |-> previousValue, cur |-> currentValue]
                     ELSE [op |-> "handleAction"]
    /\ UNCHANGED <<saveVars, previewVars, searchVars, panelVars>>

\* the calculator of a first visit's page
InitCalc ==
    /\ InitWith({})
    /\ ~hasKey(localStorage, "hasVisited")

NextCalc ==
    \/ WindowLoad
    \/ CalcDigitClick
    \/ CalcActionClick

SpecCalc == InitCalc /\ [][NextCalc]_vars

-----------------------------------------------------------------------------
(* The todo panel's handlers *)

\* the stored todo lists a session starts from
StoredTodoLists ==
    UNION {[1..n -> [text : TodoTexts, completed : BOOLEAN]] : n \in 0..(MaxTodos - 1)}
TodoStores ==
    {<<>>} \cup {[k \in {"todos"} |-> JSONstringify(list)] : list \in StoredTodoLists}

\* saveTodos(); renderTodos()
saveAndRenderTodos(list) ==
    /\ todos' = list
    /\ todoSaveTimeout' = debounceCall(todoSaveTimeout, todoSaveWait)
    /\ todoListItems' = renderTodos(list)
    /\ todoCount' = activeTodos(list)

\* the user edits the todo input box
TodoInputTyped ==
    /\ todoEvents < MaxTodoEvents
    /\ todoEvents' = todoEvents + 1
    /\ \E text \in TodoInputs : todoInput' = text
    /\ last' = [op |-> "todoInput"]
    /\ UNCHANGED <<shortcutVars, saveVars, previewVars, searchVars, calcVars, settingsVars,
                   todos, todoListItems,
                   todoCount, todoSaveTimeout>>

\* click on addTodoBtn, or Enter in the input box: addTodo()
AddTodoClick ==
    /\ todoEvents < MaxTodoEvents
    /\ Len(todos) < MaxTodos
    /\ todoEvents' = todoEvents + 1
    /\ LET r == addTodo(todoInput, todos) IN
       /\ todoInput' = r.input
       /\ IF r.saved THEN saveAndRenderTodos(r.todos)
          ELSE UNCHANGED <<todos, todoSaveTimeout, todoListItems, todoCount>>
    /\ last' = [op |-> "addTodo", input |-> todoInput, before |-> todos]
    /\ UNCHANGED <<shortcutVars, saveVars, previewVars, searchVars, calcVars, settingsVars>>

\* click on the checkbox rendered for the todo at `position` (0-based)
TodoCheckboxClick ==
    /\ todoEvents < MaxTodoEvents
    /\ todoEvents' = todoEvents + 1
    /\ \E i \in 1..Len(todoListItems) :
          LET r == checkboxClick(todoListItems[i].checkbox, todos) IN
          /\ IF r.threw THEN UNCHANGED <<todos, todoSaveTimeout, todoListItems, todoCount>>
             ELSE saveAndRenderTodos(r.todos)
          /\ last' = [op |-> "checkboxClick", position |-> i - 1, before |-> todos,
                      threw |-> r.threw]
    /\ UNCHANGED <<shortcutVars, saveVars, previewVars, searchVars, calcVars, settingsVars,
                   todoInput>>

\* click on the delete button rendered for the todo at `position` (0-based)
TodoDeleteClick ==
    /\ todoEvents < MaxTodoEvents
    /\ todoEvents' = todoEvents + 1
    /\ \E i \in 1..Len(todoListItems) :
          LET r == deleteClick(todoListItems[i].deleteBtn, todos) IN
          /\ saveAndRenderTodos(r.todos)
          /\ last' = [op |-> "deleteClick", position |-> i - 1, before |-> todos,
                      threw |-> r.threw]
    /\ UNCHANGED <<shortcutVars, saveVars, previewVars, searchVars, calcVars, settingsVars,
                   todoInput>>

\* click on clearCompletedBtn
ClearCompletedClick ==
    /\ todoEvents < MaxTodoEvents
    /\ todoEvents' = todoEvents + 1
    /\ saveAndRenderTodos(filterActive(todos))
    /\ last' = [op |-> "clearCompleted", before |-> todos]
    /\ UNCHANGED <<shortcutVars, saveVars, previewVars, searchVars, calcVars, settingsVars,
                   todoInput>>

\* `later` of debouncedSaveTodos: localStorage.setItem('todos', JSON.stringify(todos))
TodoSaveLater ==
    /\ isDue(todoSaveTimeout)
    /\ todoSaveTimeout' = NoTimer
    /\ localStorage' = setItem(localStorage, "todos", JSONstringify(todos))
    /\ last' = [op |-> "debouncedSaveTodos"]
    /\ UNCHANGED <<shortcutVars, page, editorValue, preview, pendingSaveData, saveTimeout,
                   debouncedSaveTimeout, debouncedSaveArgs, debouncedSaveServed,
                   autoSaveStatus, statusTimers, inputEvents, sinceInput, setItemThrew,
                   previewVars, searchVars, calcVars, settingsVars, todos, todoInput,
                   todoListItems, todoCount, todoEvents>>

\* todoSaveWait passes with the todo save timer running
TodoTick ==
    /\ todoSaveTimeout # NoTimer
    /\ ~isDue(todoSaveTimeout)
    /\ todoSaveTimeout' = elapse(todoSaveTimeout, todoSaveWait)
    /\ last' = [op |-> "tick"]
    /\ UNCHANGED <<shortcutVars, saveVars, previewVars, searchVars, calcVars, settingsVars,
                   todos, todoInput,
                   todoListItems, todoCount, todoEvents>>

InitTodo == InitFrom(TodoStores)

NextTodo ==
    \/ TodoInputTyped
    \/ AddTodoClick
    \/ TodoCheckboxClick
    \/ TodoDeleteClick
    \/ ClearCompletedClick
    \/ TodoSaveLater
    \/ TodoTick

SpecTodo == InitTodo /\ [][NextTodo]_vars

-----------------------------------------------------------------------------
(* Notes, theme, saved files and clear-all-data *)

\* click on the add-note button: addNote()
AddNoteClick ==
    /\ settingsEvents < MaxSettingsEvents
    /\ settingsEvents' = settingsEvents + 1
    /\ notes' = <<newNote>> \o notes
    /\ notesSaveTimeout' = debounceCall(notesSaveTimeout, notesSaveWait)
    /\ last' = [op |-> "addNote"]
    /\ UNCHANGED <<shortcutVars, saveVars, previewVars, searchVars, calcVars, todoVars, darkMode,
                   savedFileCount, dataCleared>>

\* `later` of debouncedSaveNotes: localStorage.setItem('notes', JSON.stringify(notes))
NotesSaveLater ==
    /\ isDue(notesSaveTimeout)
    /\ notesSaveTimeout' = NoTimer
    /\ localStorage' = setItem(localStorage, "notes", JSONstringify(notes))
    /\ last' = [op |-> "debouncedSaveNotes"]
    /\ UNCHANGED <<shortcutVars, page, editorValue, preview, pendingSaveData, saveTimeout,
                   debouncedSaveTimeout, debouncedSaveArgs, debouncedSaveServed,
                   autoSaveStatus, statusTimers, inputEvents, sinceInput, setItemThrew,
                   previewVars, searchVars, calcVars, todoVars, notes, darkMode,
                   savedFileCount, settingsEvents, dataCleared>>

\* click on themeToggle
ThemeToggleClick ==
    /\ settingsEvents < MaxSettingsEvents
    /\ settingsEvents' = settingsEvents + 1
    /\ darkMode' = ~darkMode
    /\ localStorage' = setItem(localStorage, "theme",
                               IF ~darkMode THEN <<"d", "a", "r", "k">>
                               ELSE <<"l", "i", "g", "h", "t">>)
    /\ last' = [op |-> "themeToggle"]
    /\ UNCHANGED <<shortcutVars, page, editorValue, preview, pendingSaveData, saveTimeout,
                   debouncedSaveTimeout, debouncedSaveArgs, debouncedSaveServed,
                   autoSaveStatus, statusTimers, inputEvents, sinceInput, setItemThrew,
                   previewVars, searchVars, calcVars, todoVars, notes, notesSaveTimeout,
                   savedFileCount, dataCleared>>

\* click on save-md-btn: savedFileCount++ and its setItem
SaveFileClick ==
    /\ settingsEvents < MaxSettingsEvents
    /\ settingsEvents' = settingsEvents + 1
    /\ savedFileCount' = savedFileCount + 1
    /\ localStorage' = setItem(localStorage, "savedFileCount", intToDigits(savedFileCount + 1))
    /\ last' = [op |-> "saveFile"]
    /\ UNCHANGED <<shortcutVars, page, editorValue, preview, pendingSaveData, saveTimeout,
                   debouncedSaveTimeout, debouncedSaveArgs, debouncedSaveServed,
                   autoSaveStatus, statusTimers, inputEvents, sinceInput, setItemThrew,
                   previewVars, searchVars, calcVars, todoVars, notes, notesSaveTimeout,
                   darkMode, dataCleared>>

\* what clear-all-data is claimed to leave alone when it is cancelled
clearableState ==
    [localStorage |-> localStorage, todos |-> todos, notes |-> notes,
     savedFileCount |-> savedFileCount, editorValue |-> editorValue, preview |-> preview,
     darkMode |-> darkMode, pendingSaveData |-> pendingSaveData]

\* click on clearAllDataBtn; `confirmed` is the answer given to confirm()
ClearAllDataClick ==
    /\ page = "open"
    /\ settingsEvents < MaxSettingsEvents
    /\ settingsEvents' = settingsEvents + 1
    /\ \E confirmed \in BOOLEAN :
          /\ IF confirmed
             THEN /\ localStorage' = clear(localStorage)
                  /\ todos' = <<>>
                  /\ notes' = <<>>
                  /\ savedFileCount' = 0
                  /\ editorValue' = <<>>
                  /\ preview' = <<>>
                  /\ darkMode' = FALSE
                  /\ todoListItems' = renderTodos(<<>>)
                  /\ todoCount' = activeTodos(<<>>)
                  /\ dataCleared' = TRUE
             ELSE UNCHANGED <<localStorage, todos, notes, savedFileCount, editorValue,
                              preview, darkMode, todoListItems, todoCount, dataCleared>>
          /\ last' = [op |-> "clearAllData", confirmed |-> confirmed,
                      before |-> clearableState]
    /\ UNCHANGED <<shortcutVars, page, pendingSaveData, saveTimeout, debouncedSaveTimeout,
                   debouncedSaveArgs, debouncedSaveServed, autoSaveStatus, statusTimers,
                   inputEvents, sinceInput, setItemThrew, previewVars, searchVars, calcVars,
                   todoInput, todoSaveTimeout, todoEvents, notesSaveTimeout>>

pageTimers == saveTimers \cup {todoSaveTimeout, notesSaveTimeout}

\* time advances by one quantum for every timer of the page; a due timer runs first
PageTick ==
    /\ page = "open"
    /\ \E t \in pageTimers : t # NoTimer
    /\ \A t \in pageTimers : ~isDue(t)
    /\ saveTimeout' = elapse(saveTimeout, Quantum)
    /\ debouncedSaveTimeout' = elapse(debouncedSaveTimeout, Quantum)
    /\ statusTimers' = {elapse(t, Quantum) : t \in statusTimers}
    /\ todoSaveTimeout' = elapse(todoSaveTimeout, Quantum)
    /\ notesSaveTimeout' = elapse(notesSaveTimeout, Quantum)
    /\ sinceInput' = Min(ElapsedCap, sinceInput + Quantum)
    /\ last' = [op |-> "tick"]
    /\ UNCHANGED <<shortcutVars, page, editorValue, preview, localStorage, pendingSaveData,
                   debouncedSaveArgs, debouncedSaveServed, autoSaveStatus, inputEvents,
                   setItemThrew, previewVars, searchVars, calcVars, todos, todoInput,
                   todoListItems, todoCount, todoEvents, notes, darkMode, savedFileCount,
                   settingsEvents, dataCleared>>

\* the user's actions in a session that ends with clear-all-data: at most
\* MaxSettingsEvents of them, none after a confirmed clear
userMayAct ==
    /\ page = "open"
    /\ ~dataCleared
    /\ inputEvents + todoEvents + settingsEvents < MaxSettingsEvents

EditorInputBeforeClear == userMayAct /\ InputDebouncedSave
ClearCompletedBeforeClear == userMayAct /\ ClearCompletedClick
AddNoteBeforeClear == userMayAct /\ AddNoteClick
ThemeToggleBeforeClear == userMayAct /\ ThemeToggleClick
SaveFileBeforeClear == userMayAct /\ SaveFileClick
ClearAllDataOnce == userMayAct /\ ClearAllDataClick

\* a first visit, and a returning visit with every kind of data stored
ClearStores ==
    {<<>>,
     [k \in {"editorContent", "editorLastSave", "hasVisited", "todos", "notes", "theme",
             "savedFileCount"} |->
        CASE k = "editorContent" -> <<"a">>
          [] k = "editorLastSave" -> DateNow
          [] k = "hasVisited" -> <<"t", "r", "u", "e">>
          [] k = "todos" -> JSONstringify(<<[text |-> <<"a">>, completed |-> TRUE]>>)
          [] k = "notes" -> JSONstringify(<<newNote>>)
          [] k = "theme" -> <<"d", "a", "r", "k">>
          [] k = "savedFileCount" -> <<"1">>]}

InitClear == InitFrom(ClearStores)

NextClear ==
    \/ WindowLoad
    \/ EditorInputBeforeClear
    \/ ClearCompletedBeforeClear
    \/ AddNoteBeforeClear
    \/ ThemeToggleBeforeClear
    \/ SaveFileBeforeClear
    \/ ClearAllDataOnce
    \/ DebouncedSaveLater
    \/ SaveTimeoutFires
    \/ StatusHide
    \/ TodoSaveLater
    \/ NotesSaveLater
    \/ PageTick

SpecClear == InitClear /\ [][NextClear]_vars

-----------------------------------------------------------------------------
(* The document's 'keydown' handler, for keys pressed without a modifier *)

\* const keyMap = {...}
keyMap ==
    [key \in {"1", "2", "3", "4", "5", "6", "7", "8", "9", "0", "q", "Q"} |->
        CASE key = "1" -> "calculator"
          [] key = "2" -> "canvas"
          [] key = "3" -> "clock"
          [] key = "4" -> "todo"
          [] key = "5" -> "notes"
          [] key = "6" -> "color"
          [] key = "7" -> "quote"
          [] key = "8" -> "converter"
          [] key = "9" -> "password"
          [] key = "0" -> "text-analyzer"
          [] key \in {"q", "Q"} -> "timestamp"]

\* the tools that have a button [data-tool] in the tool selector
Tools == {keyMap[key] : key \in DOMAIN keyMap}

\* the keys pressed and the elements focused in the sessions explored
PressedKeys == {"1", "4", "0", "q", "Q", "+", "x"}
FocusedTags == {"BODY", "INPUT", "TEXTAREA"}

\* e.key >= '0' && e.key <= '9', for keys of one character
isDigitKey(key) == key \in {"0", "1", "2", "3", "4", "5", "6", "7", "8", "9"}

\* the calculator action of a key, "" for none
calculatorKeyAction(key) ==
    CASE key = "+" -> "add"
      [] key = "-" -> "subtract"
      [] key = "*" -> "multiply"
      [] key = "/" -> "divide"
      [] key = "." -> "decimal"
      [] key \in {"Enter", "="} -> "equals"
      [] key = "Backspace" -> "backspace"
      [] OTHER -> ""

\* the handler from `if (isInputFocused) return` on: the calculator state and the
\* active tool afterwards (toolBtn.click() activates the button's panel)
keydown(key, tag, st, tool) ==
    IF tag \in {"INPUT", "TEXTAREA"} THEN [calc |-> st, tool |-> tool]
    ELSE IF isDigitKey(key) THEN [calc |-> handleNumber(key, st), tool |-> tool]
    ELSE IF calculatorKeyAction(key) # ""
         THEN [calc |-> handleAction(calculatorKeyAction(key), st), tool |-> tool]
    ELSE IF key \in DOMAIN keyMap /\ keyMap[key] \in Tools
         THEN [calc |-> st, tool |-> keyMap[key]]
    ELSE [calc |-> st, tool |-> tool]

\* document 'keydown'
Keydown ==
    /\ keydownEvents < MaxKeydowns
    /\ keydownEvents' = keydownEvents + 1
    /\ \E key \in PressedKeys :
          LET r == keydown(key, activeElementTag, calcState, activeTool) IN
          /\ setCalcState(r.calc)
          /\ activeTool' = r.tool
          /\ last' = [op |-> "keydown", key |-> key, tag |-> activeElementTag]
    /\ UNCHANGED <<toolbarEvents, saveVars, previewVars, searchVars, todoVars, settingsVars,
                   keysPressed,
                   activeElementTag>>

\* click on a tool button of the tool selector
ToolButtonClick ==
    /\ keydownEvents < MaxKeydowns
    /\ keydownEvents' = keydownEvents + 1
    /\ \E tool \in {keyMap[key] : key \in PressedKeys \cap DOMAIN keyMap} :
          activeTool' = tool
    /\ last' = [op |-> "toolClick"]
    /\ UNCHANGED <<toolbarEvents, saveVars, previewVars, searchVars, calcVars, todoVars,
                   settingsVars,
                   activeElementTag>>

\* the focus moves to another element
FocusChange ==
    /\ keydownEvents < MaxKeydowns
    /\ keydownEvents' = keydownEvents + 1
    /\ \E tag \in FocusedTags \ {activeElementTag} : activeElementTag' = tag
    /\ last' = [op |-> "focus"]
    /\ UNCHANGED <<toolbarEvents, saveVars, previewVars, searchVars, calcVars, todoVars,
                   settingsVars,
                   activeTool>>

InitShortcut == InitFrom({<<>>})

NextShortcut ==
    \/ Keydown
    \/ ToolButtonClick
    \/ FocusChange

SpecShortcut == InitShortcut /\ [][NextShortcut]_vars

-----------------------------------------------------------------------------
(* The quick-edit toolbar *)

\* the user selects the range [start, end) of the editor
EditorSelect ==
    /\ page = "open"
    /\ toolbarEvents < MaxToolbarEvents
    /\ toolbarEvents' = toolbarEvents + 1
    /\ \E start \in 0..Len(editorValue) : \E end \in start..Len(editorValue) :
          selection' = <<start, end>>
    /\ activeElementTag' = "TEXTAREA"
    /\ last' = [op |-> "select"]
    /\ UNCHANGED <<saveVars, previewVars, calcVars, todoVars, settingsVars, searchInput,
                   searchMatches, currentMatchIndex, searchCount, searchDebounceTimeout,
                   activeTool, keydownEvents>>

\* click on a .quick-btn: insertMarkdown(action), whose 'input' event runs
\* debouncedSave and throttledUpdatePreview
InsertMarkdownClick ==
    /\ page = "open"
    /\ toolbarEvents < MaxToolbarEvents
    /\ toolbarEvents' = toolbarEvents + 1
    /\ \E action \in MarkdownActions :
          LET r == insertMarkdown(action, editorValue, selection[1], selection[2]) IN
          /\ editorValue' = r.value
          /\ selection' = <<r.cursor, r.cursor>>
          /\ last' = [op |-> "insertMarkdown", action |-> action, value |-> editorValue,
                      start |-> selection[1], end |-> selection[2], events |-> inputEvents]
    /\ activeElementTag' = "TEXTAREA"
    /\ inputEvents' = inputEvents + 1
    /\ sinceInput' = 0
    /\ debouncedSaveTimeout' = debounceCall(debouncedSaveTimeout, autoSaveInterval)
    /\ debouncedSaveArgs' = debounceArgs(debouncedSaveArgs, inputEvents + 1)
    /\ IF throttleInvokes(inThrottle)
       THEN /\ invocations' = invocations + 1
            /\ sinceInvoke' = 0
            /\ inThrottle' = TRUE
            /\ throttleTimeout' = previewThrottleLimit
            /\ IF requestsRender(editorValue')
               THEN /\ lastMarkdownContent' = editorValue'
                    /\ animationFrames' = Append(animationFrames, editorValue')
               ELSE UNCHANGED <<lastMarkdownContent, animationFrames>>
       ELSE UNCHANGED <<invocations, sinceInvoke, inThrottle, throttleTimeout,
                        lastMarkdownContent, animationFrames>>
    /\ UNCHANGED <<page, preview, localStorage, pendingSaveData, saveTimeout,
                   debouncedSaveServed, autoSaveStatus, statusTimers, setItemThrew,
                   cachedPreviewHTML, calcVars, todoVars, settingsVars, searchInput,
                   searchMatches, currentMatchIndex, searchCount, searchDebounceTimeout,
                   activeTool, keydownEvents>>

InitInsert == InitWith({<<"a", "b">>})

NextInsert ==
    \/ WindowLoad
    \/ EditorSelect
    \/ InsertMarkdownClick
    \/ AnimationFrame
    \/ ThrottleTimeoutFires
    \/ PreviewTick

SpecInsert == InitInsert /\ [][NextInsert]_vars

\* the page load over the enumerated stored contents
NextLoad == WindowLoad
SpecLoad == InitLoad /\ [][NextLoad]_vars

\* the autosave pipeline when time keeps advancing and due timers run
SpecFair ==
    /\ Spec
    /\ WF_vars(Tick)
    /\ WF_vars(DebouncedSaveLater)
    /\ WF_vars(SaveTimeoutFires)
    /\ WF_vars(StatusHide)

-----------------------------------------------------------------------------
(* Claims *)

Persisted ==
    /\ hasKey(localStorage, "editorContent")
    /\ localStorage["editorContent"] = editorValue
    /\ hasKey(localStorage, "editorLastSave")

\* C1: debouncedSave = debounce(func, autoSaveInterval) invokes func only when
\* autoSaveInterval has elapsed since the most recent call with no call in between,
\* with the arguments of that call; a call that has not been served has its timer
\* pending and a served burst has none, so each burst is served exactly once.
C1_DebounceOncePerBurst ==
    /\ last.op = "debouncedSave" =>
          /\ last.elapsed >= autoSaveInterval
          /\ last.args = last.event
          /\ last.served < last.args
    /\ page = "open" => (debouncedSaveTimeout # NoTimer <=> debouncedSaveServed < inputEvents)

\* a burst of at least two calls has been served by its one invocation
C1_Witness ==
    /\ last.op = "debouncedSave"
    /\ last.served = 0
    /\ last.args >= 2

\* C2: throttledUpdatePreview = throttle(func, 200): a call while no interval is
\* running invokes func, a call while one is running invokes nothing, no timer or
\* frame callback invokes it later, and two invocations are at least 200 ms apart.
C2_ThrottleAtMostOncePerLimit ==
    /\ last.op = "throttledUpdatePreview" =>
          /\ last.after = last.before + (IF last.running THEN 0 ELSE 1)
          /\ (last.after > last.before /\ last.before > 0) => last.gap >= previewThrottleLimit
    /\ last.op \in {"throttleTimeout", "animationFrame", "tick"} => last.after = last.before

\* a second invocation, after an interval in which a call was dropped
C2_Witness ==
    /\ last.op = "throttledUpdatePreview"
    /\ last.before >= 1
    /\ last.after = last.before + 1
    /\ inputEvents > invocations

PreviewQuiet ==
    /\ page = "open"
    /\ inputEvents > 0
    /\ throttleTimeout = NoTimer
    /\ animationFrames = <<>>

\* C3 (as claimed): once every timer and animation frame has run after the last
\* editor 'input' event, the preview shows the rendering of the editor's content.
C3_PreviewShowsCurrentContent == PreviewQuiet => preview = markedParse(editorValue)

\* C4: after editor 'input' events have stopped, unless the page was closed or
\* setItem threw, localStorage 'editorContent' equals editor.value from some point
\* on and 'editorLastSave' is set.
C4_AutosaveEventuallyPersists ==
    <>[](inputEvents = 0 \/ page = "closed" \/ setItemThrew \/ Persisted)

\* the flush timer has written the content of an edited editor
C4_Witness ==
    /\ last.op = "flushSaveData"
    /\ inputEvents > 0
    /\ ~setItemThrew
    /\ page = "open"
    /\ Persisted

\* C5 (as claimed): more than autoSaveInterval after the last editor 'input' event
\* the editor content has been written to localStorage 'editorContent'.
C5_SavedWithinInterval ==
    (page = "open" /\ inputEvents > 0 /\ ~setItemThrew /\ sinceInput > autoSaveInterval)
        => (hasKey(localStorage, "editorContent")
            /\ localStorage["editorContent"] = editorValue)

\* C6 (as claimed): after the 'beforeunload' handler has run without a storage
\* error, localStorage 'editorContent' equals the editor's value.
C6_UnloadSavesEverything ==
    (last.op = "beforeunload" /\ inputEvents > 0 /\ ~setItemThrew)
        => (hasKey(localStorage, "editorContent")
            /\ localStorage["editorContent"] = editorValue)

\* C7: loadFromLocalStorage takes exactly one of three outcomes: stored content
\* that is not blank is put in the editor and rendered; otherwise a first visit
\* shows the placeholder and sets 'hasVisited'; otherwise editor and preview are
\* empty.  'hasVisited' is written in the second case only and nothing else is.
StoredNotBlank(store) ==
    /\ hasKey(store, "editorContent")
    /\ \E i \in 1..Len(store["editorContent"]) : store["editorContent"][i] \notin Whitespace

C7_LoadThreeOutcomes ==
    last.op = "loadFromLocalStorage" =>
        LET store == last.store IN
        IF StoredNotBlank(store)
        THEN /\ editorValue = store["editorContent"]
             /\ preview = markedParse(store["editorContent"])
             /\ localStorage = store
        ELSE IF ~hasKey(store, "hasVisited")
        THEN /\ editorValue = placeholder
             /\ localStorage = setItem(store, "hasVisited", <<"t", "r", "u", "e">>)
        ELSE /\ editorValue = <<>>
             /\ preview = <<>>
             /\ localStorage = store

\* a returning visitor whose stored content is blank but not empty
C7_Witness ==
    /\ last.op = "loadFromLocalStorage"
    /\ hasKey(last.store, "hasVisited")
    /\ hasKey(last.store, "editorContent")
    /\ last.store["editorContent"] # <<>>
    /\ editorValue = <<>>

\* C8: performSearch with a non-blank text finds the occurrences of the trimmed
\* text in the editor content, literally and without regard to case, scanning
\* from the left without overlap: each match is an occurrence with end = index +
\* length, the matches ascend without overlapping, every occurrence starts inside
\* a match, and the first match is selected.  A blank text clears the matches and
\* shows 0/0.
IsOccurrence(text, content, p) ==
    /\ p >= 0
    /\ p + Len(text) <= Len(content)
    /\ \A i \in 1..Len(text) : toUpperCase(content[p + i]) = toUpperCase(text[i])

C8_PerformSearchFindsAll ==
    last.op = "performSearch" =>
        LET text == trim(last.text)
            content == last.content
            n == Len(searchMatches)
        IN  IF text = <<>>
            THEN /\ searchMatches = <<>>
                 /\ currentMatchIndex = -1
                 /\ searchCount = <<0, 0>>
            ELSE /\ \A k \in 1..n :
                       /\ IsOccurrence(text, content, searchMatches[k].index)
                       /\ searchMatches[k].end = searchMatches[k].index + Len(text)
                       /\ searchMatches[k].text =
                              SubSeq(content, searchMatches[k].index + 1, searchMatches[k].end)
                 /\ \A k \in 1..(n - 1) : searchMatches[k].end <= searchMatches[k + 1].index
                 /\ \A p \in 0..Len(content) :
                       IsOccurrence(text, content, p) =>
                           \E k \in 1..n : /\ searchMatches[k].index <= p
                                           /\ p < searchMatches[k].end
                 /\ currentMatchIndex = (IF n > 0 THEN 0 ELSE -1)
                 /\ searchCount = <<currentMatchIndex + 1, n>>
                 /\ n > 0 => selection = <<searchMatches[1].index, searchMatches[1].end>>

\* a search for a text with a regex metacharacter, padded with blanks, that finds
\* an occurrence in another case as well
C8_Witness ==
    /\ last.op = "performSearch"
    /\ Len(last.text) > Len(trim(last.text))
    /\ Len(searchMatches) >= 1
    /\ \E k \in 1..Len(searchMatches) : searchMatches[k].text # trim(last.text)

\* C9: with n > 0 matches navigateSearch(1) moves from match i to (i + 1) mod n
\* and navigateSearch(-1) to (i - 1) mod n; with no matches it changes nothing.
C9_NavigateSearchCyclic ==
    last.op = "navigateSearch" =>
        LET n == Len(last.before.matches) IN
        IF n > 0
        THEN /\ currentMatchIndex = (last.before.index + last.direction) % n
             /\ searchMatches = last.before.matches
        ELSE searchState = last.before

\* the first match wraps to the last of several
C9_Witness ==
    /\ last.op = "navigateSearch"
    /\ last.direction = -1
    /\ last.before.index = 0
    /\ Len(searchMatches) >= 2
    /\ currentMatchIndex = Len(searchMatches) - 1

\* C10: evaluating a pending 'divide' whose current operand parses to 0 shows
\* 'Error'; in every other case the display shows the arithmetic result of
\* previousValue <op> currentValue.
arithmetic(op, a, b) ==
    CASE op = "add" -> numAdd(a, b)
      [] op = "subtract" -> numAdd(a, numNegate(b))
      [] op = "multiply" -> numMultiply(a, b)
      [] op = "divide" -> numDivide(a, b)

C10_DivideByZeroShowsError ==
    last.op = "calculate" =>
        LET prev == parseFloat(last.prev)
            current == parseFloat(last.cur)
        IN  IF last.operator = "divide" /\ isZero(current)
            THEN calcDisplay = ErrorText
            ELSE calcDisplay = numberToString(arithmetic(last.operator, prev, current))

\* a division by an operand that reads "0." shows Error
C10_Witness ==
    /\ last.op = "calculate"
    /\ last.operator = "divide"
    /\ last.cur = <<"0", ".">>
    /\ calcDisplay = ErrorText

\* C11: addTodo with an input that is not blank puts {text: trimmed input,
\* completed: false} in front of the todos, which keep their order and fields,
\* and clears the input box; with a blank input todos and input box are unchanged.
C11_AddTodoPrepends ==
    last.op = "addTodo" =>
        IF trim(last.input) # <<>>
        THEN /\ todos = <<[text |-> trim(last.input), completed |-> FALSE]>> \o last.before
             /\ todoInput = <<>>
        ELSE /\ todos = last.before
             /\ todoInput = last.input

\* a padded text has been added in front of a list that was not empty
C11_Witness ==
    /\ last.op = "addTodo"
    /\ Len(last.input) > Len(trim(last.input))
    /\ trim(last.input) # <<>>
    /\ last.before # <<>>
    /\ Len(todos) = Len(last.before) + 1

\* the list `list` without its element at the 0-based position
withoutPosition(list, position) ==
    SubSeq(list, 1, position) \o SubSeq(list, position + 2, Len(list))

\* C12 (as claimed): a click on the checkbox rendered for a todo completes without
\* error and toggles the completed flag of that todo and of no other.
C12_CheckboxTogglesThatTodo ==
    last.op = "checkboxClick" =>
        /\ ~last.threw
        /\ todos = [last.before EXCEPT ![last.position + 1].completed =
                        ~last.before[last.position + 1].completed]

\* C13 (as claimed): a click on the delete button rendered for the todo at
\* position i removes that todo and leaves the others in their order.
C13_DeleteRemovesThatTodo ==
    last.op = "deleteClick" => todos = withoutPosition(last.before, last.position)

\* C14 (as claimed): after a confirmed clear-all-data localStorage has no key, and
\* none reappears while the user does nothing further; a cancelled one leaves
\* localStorage and the in-memory state unchanged.
C14_ClearLeavesStorageEmpty ==
    /\ dataCleared => DOMAIN localStorage = {}
    /\ (last.op = "clearAllData" /\ ~last.confirmed) => clearableState = last.before

\* C15 (as claimed): with no INPUT or TEXTAREA focused, pressing a key listed in
\* keyMap activates the tool panel the key is mapped to.
C15_ShortcutActivatesTool ==
    (/\ last.op = "keydown"
     /\ last.tag \notin {"INPUT", "TEXTAREA"}
     /\ last.key \in DOMAIN keyMap)
        => activeTool = keyMap[last.key]

\* whether `part` occurs in `whole` as a run of consecutive characters
occursIn(part, whole) ==
    \E i \in 0..(Len(whole) - Len(part)) : SubSeq(whole, i + 1, i + Len(part)) = part

\* the text an action is claimed to wrap: the selected text, or the action's
\* default text when the selection is empty ('table' and 'hr' have none)
wrappedText(action, selectedText) ==
    IF selectedText # <<>> THEN selectedText
    ELSE IF action \in {"table", "hr"} THEN <<>>
    ELSE defaultText(action)

\* C16 (as claimed): insertMarkdown(action) leaves the text before start and the
\* text after end unchanged, replaces the selection by markup that wraps the
\* selected text (the default text when the selection is empty), collapses the
\* cursor to a position within the inserted text, and dispatches one 'input' event.
C16_InsertMarkdownWrapsSelection ==
    last.op = "insertMarkdown" =>
        LET tailLen == Len(last.value) - last.end
            inserted == SubSeq(editorValue, last.start + 1, Len(editorValue) - tailLen)
            selectedText == SubSeq(last.value, last.start + 1, last.end)
        IN  /\ Len(editorValue) >= last.start + tailLen
            /\ SubSeq(editorValue, 1, last.start) = SubSeq(last.value, 1, last.start)
            /\ SubSeq(editorValue, Len(editorValue) - tailLen + 1, Len(editorValue))
                  = SubSeq(last.value, last.end + 1, Len(last.value))
            /\ occursIn(wrappedText(last.action, selectedText), inserted)
            /\ Len(inserted) > Len(wrappedText(last.action, selectedText))
            /\ selection[1] = selection[2]
            /\ selection[1] >= last.start
            /\ selection[1] <= last.start + Len(inserted)
            /\ inputEvents = last.events + 1

\* the value the buffer holds for a key
buffered(buffer, key) == buffer[entryIndex(buffer, key)][2]

\* C17: flushSaveData with an empty buffer writes nothing and shows no status;
\* with a buffer that is not empty and no storage error it writes every buffered
\* key with its value, empties the buffer and shows 'saved'; when setItem throws
\* the buffer is kept, 'saved' is not shown and no timer is scheduled.
C17_FlushSaveDataOutcomes ==
    last.op \in {"flushSaveData", "beforeunload"} =>
        IF last.buffer = <<>>
        THEN /\ localStorage = last.store
             /\ pendingSaveData = <<>>
             /\ autoSaveStatus = last.status
             /\ statusTimers = last.timers
        ELSE IF last.failAt = 0
        THEN /\ \A i \in 1..Len(last.buffer) :
                   /\ hasKey(localStorage, last.buffer[i][1])
                   /\ localStorage[last.buffer[i][1]] = last.buffer[i][2]
             /\ \A k \in DOMAIN localStorage :
                   entryIndex(last.buffer, k) = 0 =>
                       (hasKey(last.store, k) /\ localStorage[k] = last.store[k])
             /\ pendingSaveData = <<>>
             /\ autoSaveStatus = "saved"
             /\ statusHideDelay \in statusTimers
        ELSE /\ pendingSaveData = last.buffer
             /\ autoSaveStatus = last.status
             /\ statusTimers = last.timers
             /\ saveTimeout \in {NoTimer, last.saveTimeout}
             /\ last.op = "flushSaveData" => saveTimeout = NoTimer
             /\ debouncedSaveTimeout = last.debounced

\* a flush whose second setItem threw, with the buffer kept
C17_Witness ==
    /\ last.op = "flushSaveData"
    /\ last.failAt = 2
    /\ pendingSaveData # <<>>
    /\ saveTimeout = NoTimer

====
